---- MODULE Spec2Model ----
(***************************************************************************)
(* A model of qr-generator: the validators (validator.py), the payload     *)
(* formatters (formatters.py), the encoder's path handling (generator.py), *)
(* the history store (history.py) and the generation commands (cli.py).    *)
(*                                                                         *)
(* Python strings are sequences of one-character strings, so that          *)
(* replace(), upper(), lower(), re.sub() and re.match() are computed       *)
(* character by character as the code computes them.  An Optional[str] is  *)
(* a record [some, v]: None is [some |-> FALSE, v |-> <<>>].               *)
(***************************************************************************)
EXTENDS Integers, Sequences, FiniteSets, TLC

VARIABLES
    call,      \* the last call of a pure function: its name, arguments, result
    pc,        \* position of the running command (cli.py)
    inv,       \* the command line: the command's name and its raw parameters
    vals,      \* the command's locals: validated fields, payload, result path
    log,       \* the steps the command has performed, in order, with their outcome
    files,     \* image files on disk: the paths img.save() has written
    exitCode,  \* exit status of the process (-1 while it runs)
    stderr,    \* what the process printed to the error stream
    uncaught,  \* TRUE when an exception left the command uncaught
    hfile,     \* the history file, ~/.qr-generator/history.json
    hret,      \* the last history operation, its argument and its return value
    added,     \* number of add_entry calls since the history was last empty
    now,       \* the clock datetime.now() reads
    written    \* the entries add_entry was asked to write since the last clear

vars == <<call, pc, inv, vals, log, files, exitCode, stderr, uncaught,
          hfile, hret, added, now, written>>

cliVars == <<pc, inv, vals, log, files, exitCode, stderr, uncaught>>
histVars == <<hfile, hret, added, now, written>>

----------------------------------------------------------------------------
(* Strings *)

None == [some |-> FALSE, v |-> <<>>]
Some(s) == [some |-> TRUE, v |-> s]

\* Python truthiness of an Optional[str]: None and "" are falsy.
Truthy(o) == o.some /\ o.v # <<>>

Lowers == <<"a","b","c","d","e","f","g","h","i","j","k","l","m",
            "n","o","p","q","r","s","t","u","v","w","x","y","z">>
Uppers == <<"A","B","C","D","E","F","G","H","I","J","K","L","M",
            "N","O","P","Q","R","S","T","U","V","W","X","Y","Z">>

UpperChar(c) ==
    IF \E i \in DOMAIN Lowers : Lowers[i] = c
    THEN Uppers[CHOOSE i \in DOMAIN Lowers : Lowers[i] = c]
    ELSE c

LowerChar(c) ==
    IF \E i \in DOMAIN Uppers : Uppers[i] = c
    THEN Lowers[CHOOSE i \in DOMAIN Uppers : Uppers[i] = c]
    ELSE c

\* str.upper() and str.lower()
upper(s) == [i \in 1..Len(s) |-> UpperChar(s[i])]
lower(s) == [i \in 1..Len(s) |-> LowerChar(s[i])]

\* str.replace(old, new) for a one-character old
RECURSIVE replace(_, _, _)
replace(s, old, new) ==
    IF s = <<>> THEN <<>>
    ELSE (IF Head(s) = old THEN new ELSE <<Head(s)>>) \o replace(Tail(s), old, new)

\* sep.join(parts)
RECURSIVE join(_, _)
join(sep, parts) ==
    IF parts = <<>> THEN <<>>
    ELSE IF Len(parts) = 1 THEN parts[1]
    ELSE parts[1] \o sep \o join(sep, Tail(parts))

\* the characters m..n of s, those there are (a Python slice s[m-1:n])
Slice(s, m, n) ==
    LET lo == IF m < 1 THEN 1 ELSE m
        hi == IF n > Len(s) THEN Len(s) ELSE n
    IN  [i \in 1..(hi - lo + 1) |-> s[lo + i - 1]]

\* a string of n copies of the character c
Rep(c, n) == [i \in 1..n |-> c]

StartsWith(s, p) == Len(s) >= Len(p) /\ Slice(s, 1, Len(p)) = p
EndsWith(s, p) == Len(s) >= Len(p) /\ Slice(s, Len(s) - Len(p) + 1, Len(s)) = p

\* all strings over the alphabet A of length at most n
StringsUpTo(A, n) == UNION {[1..k -> A] : k \in 0..n}

----------------------------------------------------------------------------
(* validator.py: WiFi *)

\* a raised ValidationError, and a normal return
Fail(kind, detail) == [ok |-> FALSE, kind |-> kind, detail |-> detail, value |-> <<>>]
Ok(value) == [ok |-> TRUE, kind |-> "", detail |-> <<>>, value |-> value]

WPA == <<"W","P","A">>
WPA2 == <<"W","P","A","2">>
WPA3 == <<"W","P","A","3">>
WEP == <<"W","E","P">>
NOPASS == <<"N","O","P","A","S","S">>
NONE == <<"N","O","N","E">>
OPEN == <<"O","P","E","N">>

valid_types == {WPA, WPA2, WPA3, WEP, NOPASS}

SsidMax == 32

\* as validate_wifi_security, comparing the input without uppercasing it
validate_wifi_security_cased(security) ==
    LET aliased == IF security \in {NONE, OPEN} THEN NOPASS ELSE security
    IN  IF aliased \notin valid_types
        THEN Fail("bad_security", security)
        ELSE Ok(aliased)

validate_wifi_security(security) ==
    LET security_upper == upper(security)
        aliased == IF security_upper \in {NONE, OPEN} THEN NOPASS ELSE security_upper
    IN  IF aliased \notin valid_types
        THEN Fail("bad_security", security)
        ELSE Ok(aliased)

\* as validate_wifi, without the reset of the password of an open network
validate_wifi_keeps_password(ssid, password, security) ==
    IF ssid = <<>> THEN Fail("ssid_empty", <<>>)
    ELSE IF Len(ssid) > SsidMax THEN Fail("ssid_too_long", <<Len(ssid), SsidMax>>)
    ELSE LET sec == validate_wifi_security(security)
         IN  IF ~sec.ok THEN sec
             ELSE IF sec.value # NOPASS /\ ~Truthy(password)
                  THEN Fail("password_required", sec.value)
             ELSE Ok([ssid |-> ssid,
                      password |-> IF Truthy(password) THEN password.v ELSE <<>>,
                      security |-> sec.value])

validate_wifi(ssid, password, security) ==
    IF ssid = <<>> THEN Fail("ssid_empty", <<>>)
    ELSE IF Len(ssid) > SsidMax THEN Fail("ssid_too_long", <<Len(ssid), SsidMax>>)
    ELSE LET sec == validate_wifi_security(security)
         IN  IF ~sec.ok THEN sec
             ELSE IF sec.value # NOPASS /\ ~Truthy(password)
                  THEN Fail("password_required", sec.value)
             ELSE LET pw == IF sec.value = NOPASS THEN Some(<<>>) ELSE password
                  IN  Ok([ssid |-> ssid,
                          password |-> IF Truthy(pw) THEN pw.v ELSE <<>>,
                          security |-> sec.value])

----------------------------------------------------------------------------
(* validator.py: phone, email, URL, vCard *)

AsciiDigits == {"0", "1", "2", "3", "4", "5", "6", "7", "8", "9"}

\* the class \d of the re module on a str: the decimal digits of every script.
\* "U+0663" stands for the one character ARABIC-INDIC DIGIT THREE.
Digits == AsciiDigits \cup {"U+0663"}

\* the class \s of the re module, as far as the inputs of this model go
Whitespace == {" ", "\t", "\n", "\r"}

\* re.sub(r"[\s\-\.\(\)]", "", s)
RECURSIVE re_sub_formatting(_)
re_sub_formatting(s) ==
    IF s = <<>> THEN <<>>
    ELSE (IF Head(s) \in Whitespace \cup {"-", ".", "(", ")"} THEN <<>> ELSE <<Head(s)>>)
         \o re_sub_formatting(Tail(s))

PhoneMinDigits == 7
PhoneMaxDigits == 15

\* the length of the longest run of digits s starts with, up to max
RECURSIVE DigitRun(_, _)
DigitRun(s, max) ==
    IF max = 0 \/ s = <<>> \/ Head(s) \notin Digits THEN 0
    ELSE 1 + DigitRun(Tail(s), max - 1)

\* as re_match_phone, with $ left out of the pattern
re_match_phone_prefix(s) ==
    LET rest == IF s # <<>> /\ Head(s) = "+" THEN Tail(s) ELSE s
        n == DigitRun(rest, PhoneMaxDigits)
    IN  n >= PhoneMinDigits

\* re.match(r"^\+?\d{7,15}$", s): the greedy \d{7,15} takes n digits, and $
\* matches at the end of s or before a newline that ends s
re_match_phone(s) ==
    LET rest == IF s # <<>> /\ Head(s) = "+" THEN Tail(s) ELSE s
        n == DigitRun(rest, PhoneMaxDigits)
    IN  /\ n >= PhoneMinDigits
        /\ \/ n = Len(rest)
           \/ n + 1 = Len(rest) /\ rest[n + 1] = "\n"

validate_phone(phone) ==
    IF phone = <<>> THEN Fail("phone_empty", <<>>)
    ELSE LET normalized == re_sub_formatting(phone)
         IN  IF ~re_match_phone(normalized)
             THEN Fail("phone_invalid", phone)
             ELSE Ok(normalized)

HTTP == <<"h", "t", "t", "p", ":", "/", "/">>
HTTPS == <<"h", "t", "t", "p", "s", ":", "/", "/">>

\* A host name as the validators package accepts it, cut down to what tells
\* the inputs of this model apart: labels separated by dots, no blank.
HostOK(d) ==
    /\ Len(d) >= 3
    /\ d[1] # "." /\ d[Len(d)] # "."
    /\ \E j \in 2..(Len(d) - 1) : d[j] = "."
    /\ \A j \in 1..Len(d) : d[j] \notin Whitespace \cup {"@", "/", ":"}

\* validators.url(url)
validators_url(url) ==
    \/ StartsWith(url, HTTP) /\ HostOK(Slice(url, Len(HTTP) + 1, Len(url)))
    \/ StartsWith(url, HTTPS) /\ HostOK(Slice(url, Len(HTTPS) + 1, Len(url)))

\* the characters of a dot-atom, the unquoted local part of an address (the
\* grave accent, which no input of this model holds, is left out)
AtomChars ==
    {Lowers[i] : i \in DOMAIN Lowers} \cup {Uppers[i] : i \in DOMAIN Uppers} \cup AsciiDigits
        \cup {"-", "!", "#", "$", "%", "&", "'", "*", "+", "/", "=", "?", "^", "_", "{", "}", "|", "~"}

\* validators.email(email): one "@", a dot-atom before it (atoms of AtomChars
\* separated by single dots), a host name after it
validators_email(email) ==
    LET ats == {i \in 1..Len(email) : email[i] = "@"}
    IN  /\ Cardinality(ats) = 1
        /\ LET i == CHOOSE i \in ats : TRUE
           IN  /\ i > 1
               /\ \A j \in 1..(i - 1) : email[j] \in AtomChars \cup {"."}
               /\ email[1] # "." /\ email[i - 1] # "."
               /\ \A j \in 1..(i - 2) : ~(email[j] = "." /\ email[j + 1] = ".")
               /\ HostOK(Slice(email, i + 1, Len(email)))

validate_url(url) ==
    IF url = <<>> THEN Fail("url_empty", <<>>)
    ELSE LET u == IF StartsWith(url, HTTP) \/ StartsWith(url, HTTPS)
                  THEN url ELSE HTTPS \o url
         IN  IF ~validators_url(u) THEN Fail("url_invalid", u) ELSE Ok(u)

validate_email(email) ==
    IF email = <<>> THEN Fail("email_empty", <<>>)
    ELSE IF ~validators_email(email) THEN Fail("email_invalid", email)
    ELSE Ok(email)

\* str.strip()
RECURSIVE lstrip(_)
lstrip(s) == IF s # <<>> /\ Head(s) \in Whitespace THEN lstrip(Tail(s)) ELSE s
RECURSIVE rstrip(_)
rstrip(s) ==
    IF s # <<>> /\ s[Len(s)] \in Whitespace THEN rstrip(Slice(s, 1, Len(s) - 1)) ELSE s
strip(s) == rstrip(lstrip(s))

\* the dict validate_vcard returns: a key it does not set is None here
validate_vcard(name, phone, email, organization, title, url) ==
    IF ~Truthy(name) THEN Fail("name_required", <<>>)
    ELSE LET p == IF Truthy(phone) THEN validate_phone(phone.v) ELSE Ok(<<>>)
             e == IF Truthy(email) THEN validate_email(email.v) ELSE Ok(<<>>)
             u == IF Truthy(url) THEN validate_url(url.v) ELSE Ok(<<>>)
         IN  IF ~p.ok THEN p
             ELSE IF ~e.ok THEN e
             ELSE IF ~u.ok THEN u
             ELSE Ok([name |-> strip(name.v),
                      phone |-> IF Truthy(phone) THEN Some(p.value) ELSE None,
                      email |-> IF Truthy(email) THEN Some(e.value) ELSE None,
                      organization |-> IF Truthy(organization)
                                       THEN Some(strip(organization.v)) ELSE None,
                      title |-> IF Truthy(title) THEN Some(strip(title.v)) ELSE None,
                      url |-> IF Truthy(url) THEN Some(u.value) ELSE None])

----------------------------------------------------------------------------
(* validator.py and generator.py: the output path *)

\* A resolved path is [dir, name]: the parent directory and the final
\* component.  The empty name stands for an empty --output value.
ExistingDirs == {"out", "readonly"}
WritableDirs == {"out"}

\* str.rfind("."), 1-based, 0 when there is no dot
rfind_dot(name) ==
    IF \E i \in 1..Len(name) : name[i] = "."
    THEN CHOOSE i \in 1..Len(name) :
            name[i] = "." /\ \A j \in (i + 1)..Len(name) : name[j] # "."
    ELSE 0

\* PurePath.suffix: from the last dot on, unless that dot starts or ends the name
suffix(name) ==
    LET i == rfind_dot(name)
    IN  IF 1 < i /\ i < Len(name) THEN Slice(name, i, Len(name)) ELSE <<>>

\* PurePath.with_suffix(new)
with_suffix(path, new) ==
    LET old == suffix(path.name)
    IN  [path EXCEPT !.name = Slice(path.name, 1, Len(path.name) - Len(old)) \o new]

PNG == <<"p", "n", "g">>
SVG == <<"s", "v", "g">>

validate_output_path(output) ==
    IF output.name = <<>> THEN Fail("output_required", <<>>)
    ELSE LET sfx == lower(suffix(output.name))
         IN  IF sfx \notin {<<".">> \o PNG, <<".">> \o SVG}
             THEN Fail("bad_extension", sfx)
             ELSE IF output.dir \notin ExistingDirs THEN Fail("dir_missing", output.dir)
             ELSE IF output.dir \notin WritableDirs THEN Fail("dir_unwritable", output.dir)
             ELSE Ok(output)

\* str.lstrip(".")
RECURSIVE lstrip_dot(_)
lstrip_dot(s) == IF s # <<>> /\ Head(s) = "." THEN lstrip_dot(Tail(s)) ELSE s

\* as generate_qr, saving to the path as given
generate_qr_as_given(output_path, format_override) ==
    LET output_format == IF Truthy(format_override) THEN lower(format_override.v)
                         ELSE lstrip_dot(lower(suffix(output_path.name)))
    IN  [format |-> output_format, path |-> output_path]

\* generate_qr's choice of format and of the path it saves to and returns
generate_qr(output_path, format_override) ==
    LET output_format == IF Truthy(format_override) THEN lower(format_override.v)
                         ELSE lstrip_dot(lower(suffix(output_path.name)))
        ext == IF output_format = SVG THEN <<".">> \o SVG ELSE <<".">> \o PNG
        saved == IF lower(suffix(output_path.name)) # ext
                 THEN with_suffix(output_path, ext) ELSE output_path
    IN  [format |-> output_format, path |-> saved]

----------------------------------------------------------------------------
(* formatters.py: WiFi *)

BS == "\\"

\* as escape, with the backslash replaced last instead of first
escape_backslash_last(s) ==
    replace(replace(replace(replace(replace(s,
        ";", <<BS, ";">>), ",", <<BS, ",">>), "\"", <<BS, "\"">>), ":", <<BS, ":">>),
        BS, <<BS, BS>>)

escape(s) ==
    replace(replace(replace(replace(replace(s,
        BS, <<BS, BS>>), ";", <<BS, ";">>), ",", <<BS, ",">>), "\"", <<BS, "\"">>),
        ":", <<BS, ":">>)

\* as format_wifi, with the password field written whatever the security is
format_wifi_any_security(ssid, password, security, hidden) ==
    LET parts0 == << <<"T", ":">> \o security, <<"S", ":">> \o escape(ssid) >>
        parts1 == IF password # <<>>
                  THEN Append(parts0, <<"P", ":">> \o escape(password))
                  ELSE parts0
        parts2 == IF hidden
                  THEN Append(parts1, <<"H", ":", "t", "r", "u", "e">>)
                  ELSE parts1
    IN  <<"W", "I", "F", "I", ":">> \o join(<<";">>, parts2) \o <<";", ";">>

format_wifi(ssid, password, security, hidden) ==
    LET parts0 == << <<"T", ":">> \o security, <<"S", ":">> \o escape(ssid) >>
        parts1 == IF password # <<>> /\ security # NOPASS
                  THEN Append(parts0, <<"P", ":">> \o escape(password))
                  ELSE parts0
        parts2 == IF hidden
                  THEN Append(parts1, <<"H", ":", "t", "r", "u", "e">>)
                  ELSE parts1
    IN  <<"W", "I", "F", "I", ":">> \o join(<<";">>, parts2) \o <<";", ";">>

----------------------------------------------------------------------------
(* formatters.py: vCard *)

\* str.split(): the maximal runs of non-whitespace characters
RECURSIVE split(_, _)
split(s, cur) ==
    IF s = <<>> THEN (IF cur = <<>> THEN <<>> ELSE <<cur>>)
    ELSE IF Head(s) \in Whitespace
         THEN (IF cur = <<>> THEN <<>> ELSE <<cur>>) \o split(Tail(s), <<>>)
         ELSE split(Tail(s), Append(cur, Head(s)))

\* the lines of the card; the command passes neither address nor note
format_vcard(name, phone, email, organization, title, url) ==
    LET name_parts == split(strip(name), <<>>)
        n == Len(name_parts)
        N == IF n >= 2
             THEN <<"N", ":">> \o name_parts[n] \o <<";">>
                  \o join(<<" ">>, Slice(name_parts, 1, n - 1)) \o <<";", ";", ";">>
             ELSE <<"N", ":">> \o name \o <<";", ";", ";", ";">>
        opt(prefix, o) == IF Truthy(o) THEN <<prefix \o o.v>> ELSE <<>>
    IN  << <<"B","E","G","I","N",":","V","C","A","R","D">>,
           <<"V","E","R","S","I","O","N",":","3",".","0">>,
           N,
           <<"F", "N", ":">> \o name >>
        \o opt(<<"O","R","G",":">>, organization)
        \o opt(<<"T","I","T","L","E",":">>, title)
        \o opt(<<"T","E","L",";","T","Y","P","E","=","C","E","L","L",":">>, phone)
        \o opt(<<"E","M","A","I","L",":">>, email)
        \o opt(<<"U","R","L",":">>, url)
        \o << <<"E","N","D",":","V","C","A","R","D">> >>

----------------------------------------------------------------------------
(* validator.py: text; formatters.py: mailto: and sms: *)

TextMax == 4000

validate_text(text) ==
    IF text = <<>> THEN Fail("text_empty", <<>>)
    ELSE IF Len(text) > TextMax THEN Fail("text_too_long", <<Len(text), TextMax>>)
    ELSE Ok(text)

\* the characters urllib.parse.quote never encodes
Unreserved ==
    {Lowers[i] : i \in DOMAIN Lowers} \cup {Uppers[i] : i \in DOMAIN Uppers}
        \cup AsciiDigits \cup {"_", ".", "-", "~"}

\* %XX for the other characters the inputs of this model hold
PercentCode(c) ==
    CASE c = " " -> <<"%", "2", "0">>
      [] c = "\"" -> <<"%", "2", "2">>
      [] c = "#" -> <<"%", "2", "3">>
      [] c = "%" -> <<"%", "2", "5">>
      [] c = "&" -> <<"%", "2", "6">>
      [] c = "+" -> <<"%", "2", "B">>
      [] c = "," -> <<"%", "2", "C">>
      [] c = "/" -> <<"%", "2", "F">>
      [] c = ":" -> <<"%", "3", "A">>
      [] c = ";" -> <<"%", "3", "B">>
      [] c = "=" -> <<"%", "3", "D">>
      [] c = "?" -> <<"%", "3", "F">>
      [] c = "@" -> <<"%", "4", "0">>
      [] c = "\\" -> <<"%", "5", "C">>
      [] c = "\n" -> <<"%", "0", "A">>

\* urllib.parse.quote(s, safe)
RECURSIVE quote(_, _)
quote(s, safe) ==
    IF s = <<>> THEN <<>>
    ELSE (IF Head(s) \in Unreserved \cup safe THEN <<Head(s)>> ELSE PercentCode(Head(s)))
         \o quote(Tail(s), safe)

\* urlencode(params, quote_via=quote): quote is called with safe=''
urlencode(params) ==
    join(<<"&">>, [i \in 1..Len(params) |->
                      quote(params[i][1], {}) \o <<"=">> \o quote(params[i][2], {})])

format_email(address, subject, body, cc, bcc) ==
    LET param(key, o) == IF Truthy(o) THEN << <<key, o.v>> >> ELSE <<>>
        params == param(<<"s", "u", "b", "j", "e", "c", "t">>, subject) \o param(<<"b", "o", "d", "y">>, body)
                  \o param(<<"c", "c">>, cc) \o param(<<"b", "c", "c">>, bcc)
    IN  IF params # <<>>
        THEN <<"m", "a", "i", "l", "t", "o", ":">> \o address \o <<"?">> \o urlencode(params)
        ELSE <<"m", "a", "i", "l", "t", "o", ":">> \o address

format_sms(phone, message) ==
    IF Truthy(message)
    THEN <<"s", "m", "s", ":">> \o phone \o <<"?", "b", "o", "d", "y", "=">> \o quote(message.v, {"/"})
    ELSE <<"s", "m", "s", ":">> \o phone

----------------------------------------------------------------------------
(* cli.py *)

\* a directory as the characters of its path
DirChars(d) ==
    CASE d = "out" -> <<"/", "o", "u", "t">>
      [] d = "readonly" -> <<"/", "r", "o">>
      [] d = "nowhere" -> <<"/", "n", "o">>

\* str(path)
path_str(path) == DirChars(path.dir) \o <<"/">> \o path.name

\* _build_command: an argument of the command line, always quoted
Argument(value) == << <<"\"">> \o value \o <<"\"">> >>

\* _build_command: a string option; None and '' are left out, a value with a
\* blank is quoted
Option(name, o) ==
    IF ~Truthy(o) THEN <<>>
    ELSE IF \E i \in 1..Len(o.v) : o.v[i] = " "
         THEN << name \o <<" ", "\"">> \o o.v \o <<"\"">> >>
         ELSE << name \o <<" ">> \o o.v >>

\* _build_command: a flag
Flag(name, value) == IF value THEN <<name>> ELSE <<>>

\* ctx.info_name
CmdName(cmd) ==
    CASE cmd = "url" -> <<"u", "r", "l">>
      [] cmd = "text" -> <<"t", "e", "x", "t">>
      [] cmd = "wifi" -> <<"w", "i", "f", "i">>
      [] cmd = "vcard" -> <<"v", "c", "a", "r", "d">>
      [] cmd = "email" -> <<"e", "m", "a", "i", "l">>
      [] cmd = "sms" -> <<"s", "m", "s">>

\* _build_command(ctx), with the program invoked as qr
build_command(i) ==
    LET p == i.p
        common == Option(<<"-", "-", "o", "u", "t", "p", "u", "t">>, Some(path_str(i.output)))
                  \o Option(<<"-", "-", "f", "o", "r", "m", "a", "t", "-", "o", "v", "e", "r", "r", "i", "d", "e">>, i.format_override)
        params ==
            CASE i.cmd = "url" -> Argument(p.url)
              [] i.cmd = "text" -> Argument(p.text)
              [] i.cmd = "wifi" ->
                    Option(<<"-", "-", "s", "s", "i", "d">>, Some(p.ssid)) \o Option(<<"-", "-", "p", "a", "s", "s", "w", "o", "r", "d">>, Some(p.password))
                    \o Option(<<"-", "-", "s", "e", "c", "u", "r", "i", "t", "y">>, Some(p.security)) \o Flag(<<"-", "-", "h", "i", "d", "d", "e", "n">>, p.hidden)
              [] i.cmd = "vcard" ->
                    Option(<<"-", "-", "n", "a", "m", "e">>, Some(p.name)) \o Option(<<"-", "-", "p", "h", "o", "n", "e">>, p.phone)
                    \o Option(<<"-", "-", "e", "m", "a", "i", "l">>, p.email) \o Option(<<"-", "-", "o", "r", "g", "a", "n", "i", "z", "a", "t", "i", "o", "n">>, p.organization)
                    \o Option(<<"-", "-", "t", "i", "t", "l", "e">>, p.title) \o Option(<<"-", "-", "u", "r", "l">>, p.url)
              [] i.cmd = "email" ->
                    Argument(p.address) \o Option(<<"-", "-", "s", "u", "b", "j", "e", "c", "t">>, p.subject)
                    \o Option(<<"-", "-", "b", "o", "d", "y">>, p.body) \o Option(<<"-", "-", "c", "c">>, p.cc)
                    \o Option(<<"-", "-", "b", "c", "c">>, p.bcc)
              [] i.cmd = "sms" -> Argument(p.phone) \o Option(<<"-", "-", "m", "e", "s", "s", "a", "g", "e">>, p.message)
    IN  join(<<" ">>, << <<"q", "r">>, CmdName(i.cmd) >> \o params \o common)

\* the validation of the command's content: the first statement of its try block
validate_content(i) ==
    CASE i.cmd = "url" -> validate_url(i.p.url)
      [] i.cmd = "text" -> validate_text(i.p.text)
      [] i.cmd = "wifi" -> validate_wifi(i.p.ssid, Some(i.p.password), i.p.security)
      [] i.cmd = "vcard" -> validate_vcard(Some(i.p.name), i.p.phone, i.p.email,
                                           i.p.organization, i.p.title, i.p.url)
      [] i.cmd = "email" -> validate_email(i.p.address)
      [] i.cmd = "sms" -> validate_phone(i.p.phone)

\* The longest payload qr.make(fit=True) fits into a QR code at the default
\* error correction M: the 2331 bytes of a version 40 symbol in byte mode,
\* the mode of the payloads of this model. Beyond it qrcode raises
\* DataOverflowError.
QrByteCapacity == 2331

\* the commands that call a formatter; url and text encode the validated value
HasFormatter(cmd) == cmd \in {"wifi", "vcard", "email", "sms"}

\* the payload the command hands to generate_qr
format_payload(i, v) ==
    CASE i.cmd = "wifi" -> format_wifi(v.ssid, v.password, v.security, i.p.hidden)
      [] i.cmd = "vcard" ->
            join(<<"\n">>, format_vcard(v.name, v.phone, v.email, v.organization, v.title, v.url))
      [] i.cmd = "email" -> format_email(v, i.p.subject, i.p.body, i.p.cc, i.p.bcc)
      [] i.cmd = "sms" -> format_sms(v, i.p.message)
      [] OTHER -> v

\* the data argument of history.add_entry
entry_data(i, v) ==
    CASE i.cmd = "url" -> [url |-> v]
      [] i.cmd = "text" ->
            [text |-> IF Len(v) > 100 THEN Slice(v, 1, 100) \o <<".", ".", ".">> ELSE v]
      [] i.cmd = "wifi" -> [ssid |-> v.ssid, security |-> v.security, hidden |-> i.p.hidden]
      [] i.cmd = "vcard" -> [name |-> i.p.name, phone |-> i.p.phone, email |-> i.p.email]
      [] i.cmd = "email" -> [email |-> v, subject |-> i.p.subject]
      [] i.cmd = "sms" -> [phone |-> v, message |-> i.p.message]

\* as try_step, going on to the next statement whatever the validator did
try_step_continue(r, next) == next

\* a statement of the try block: a ValidationError takes the command to its
\* except clause, which calls _handle_error
try_step(r, next) == IF r.ok THEN next ELSE "handle_error"

----------------------------------------------------------------------------
(* history.py *)

\* The history file is [kind, entries]:
\*   "missing"       no file
\*   "object"        a JSON object whose "entries" is the list entries
\*   "no_entries"    a JSON object without the key "entries"
\*   "bad_json"      not JSON
\*   "not_object"    JSON, but a list, a string, a number, true, false or null
\*   "entries_other" a JSON object whose "entries" is a number, true, false
\*                   or null
\* _load_history returns [raised, entries]: the "entries" of the dict it
\* returns, or raised when it raises or the caller's use of its result does.
\* Only json.JSONDecodeError and IOError are caught.  On JSON that is not an
\* object, the test '"entries" not in data', the assignment
\* data["entries"] = [] or the caller's history["entries"] raises TypeError;
\* on "entries" that is no list, the caller's append, sort, iteration or len
\* raises AttributeError or TypeError.
load_history(file) ==
    CASE file.kind = "missing" -> [raised |-> FALSE, entries |-> <<>>]
      [] file.kind = "bad_json" -> [raised |-> FALSE, entries |-> <<>>]
      [] file.kind = "no_entries" -> [raised |-> FALSE, entries |-> <<>>]
      [] file.kind = "object" -> [raised |-> FALSE, entries |-> file.entries]
      [] OTHER -> [raised |-> TRUE, entries |-> <<>>]

\* _save_history
save_history(es) == [kind |-> "object", entries |-> es]

\* as add_entry, the new entry written in front of the stored ones
add_entry_prepend(file, entry_id, created_at, qr_type, command, output_path, data) ==
    LET history == load_history(file)
        entry == [id |-> entry_id, type |-> qr_type, command |-> command,
                  output_path |-> output_path, data |-> data,
                  created_at |-> created_at]
    IN  IF history.raised THEN [raised |-> TRUE, file |-> file, ret |-> <<>>]
        ELSE [raised |-> FALSE,
              file |-> save_history(<<entry>> \o history.entries),
              ret |-> entry_id]

\* add_entry: [raised, file, ret]
add_entry(file, entry_id, created_at, qr_type, command, output_path, data) ==
    LET history == load_history(file)
        entry == [id |-> entry_id, type |-> qr_type, command |-> command,
                  output_path |-> output_path, data |-> data,
                  created_at |-> created_at]
    IN  IF history.raised THEN [raised |-> TRUE, file |-> file, ret |-> <<>>]
        ELSE [raised |-> FALSE,
              file |-> save_history(Append(history.entries, entry)),
              ret |-> entry_id]

\* list.sort(key=created_at, reverse=True): stable, equal keys keep their order
RECURSIVE sort_desc(_)
sort_desc(es) ==
    IF es = <<>> THEN <<>>
    ELSE LET n == Len(es)
             rest == sort_desc(Slice(es, 1, n - 1))
             x == es[n]
             \* x goes after the entries whose key is not below its own
             k == Cardinality({i \in 1..Len(rest) : rest[i].created_at >= x.created_at})
         IN  Slice(rest, 1, k) \o <<x>> \o Slice(rest, k + 1, Len(rest))

\* entries[:limit]
slice_to(es, limit) ==
    IF limit >= 0 THEN Slice(es, 1, limit) ELSE Slice(es, 1, Len(es) + limit)

NoLimit == [some |-> FALSE, v |-> 0]

\* as get_entries, the entries left in the order of the file
get_entries_unsorted(file, limit) ==
    LET history == load_history(file)
        sorted == history.entries
    IN  IF history.raised THEN [raised |-> TRUE, ret |-> <<>>]
        ELSE [raised |-> FALSE,
              ret |-> IF limit.some /\ limit.v # 0 THEN slice_to(sorted, limit.v)
                      ELSE sorted]

\* get_entries: [raised, ret]; "if limit:" is false for None and for 0
get_entries(file, limit) ==
    LET history == load_history(file)
        sorted == sort_desc(history.entries)
    IN  IF history.raised THEN [raised |-> TRUE, ret |-> <<>>]
        ELSE [raised |-> FALSE,
              ret |-> IF limit.some /\ limit.v # 0 THEN slice_to(sorted, limit.v)
                      ELSE sorted]

\* get_entry: the first entry with the id, or None
get_entry(file, entry_id) ==
    LET history == load_history(file)
        hits == {i \in 1..Len(history.entries) : history.entries[i].id = entry_id}
    IN  IF history.raised THEN [raised |-> TRUE, ret |-> <<>>]
        ELSE [raised |-> FALSE,
              ret |-> IF hits = {} THEN <<>>
                      ELSE <<history.entries[CHOOSE i \in hits : \A j \in hits : i <= j]>>]

\* as clear_history, counting the entries after they were removed
clear_history_count_after(file) ==
    LET history == load_history(file)
    IN  IF history.raised THEN [raised |-> TRUE, file |-> file, ret |-> 0]
        ELSE [raised |-> FALSE, file |-> save_history(<<>>), ret |-> Len(<<>>)]

\* clear_history: [raised, file, ret]
clear_history(file) ==
    LET history == load_history(file)
        count == Len(history.entries)
    IN  IF history.raised THEN [raised |-> TRUE, file |-> file, ret |-> 0]
        ELSE [raised |-> FALSE, file |-> save_history(<<>>), ret |-> count]

Quotes == {"\"", "'"}

PasswordFlag == <<"-", "-", "p", "a", "s", "s", "w", "o", "r", "d">>

Mask == <<"*", "*", "*", "*">>

\* the length of the longest run, from position i of s, of characters that
\* are in S (inside) or are not in S (~inside): a greedy character class
RECURSIVE Run(_, _, _, _)
Run(s, i, S, inside) ==
    IF i <= Len(s) /\ ((s[i] \in S) <=> inside) THEN 1 + Run(s, i + 1, S, inside) ELSE 0

\* s holds t from position i on
HasAt(s, i, t) ==
    /\ i + Len(t) - 1 <= Len(s)
    /\ \A k \in 1..Len(t) : s[i + k - 1] = t[k]

\* the match of (--password\s+["']?)([^"'\s]+)(["']?) that starts at position
\* i of s, where s holds --password: the value is s[from..to], the match
\* ends at end.  Giving back
\* whitespace or the opening quote never turns a failure into a match: the
\* character the value would then start with is whitespace or a quote.
re_match_password(s, i) ==
    LET j == i + Len(PasswordFlag)
        w == Run(s, j, Whitespace, TRUE)
        k == j + w
        q == IF k <= Len(s) /\ s[k] \in Quotes THEN 1 ELSE 0
        v == Run(s, k + q, Quotes \cup Whitespace, FALSE)
        e == k + q + v
        c == IF e <= Len(s) /\ s[e] \in Quotes THEN 1 ELSE 0
    IN  [found |-> w >= 1 /\ v >= 1, from |-> k + q, to |-> e - 1, end |-> e + c - 1]

\* re.sub of the pattern by \1****\3, over the matches from position i on
RECURSIVE re_sub_password(_, _)
re_sub_password(s, i) ==
    LET hits == {k \in i..Len(s) : HasAt(s, k, PasswordFlag)}
        \* the scan goes on to the next place s holds --password
        k == CHOOSE k \in hits : \A j \in hits : k <= j
        m == re_match_password(s, k)
    IN  IF hits = {} THEN Slice(s, i, Len(s))
        ELSE IF m.found
             THEN Slice(s, i, m.from - 1) \o Mask \o Slice(s, m.to + 1, m.end)
                  \o re_sub_password(s, m.end + 1)
             ELSE Slice(s, i, k) \o re_sub_password(s, k + 1)

\* _mask_sensitive_data
mask_sensitive_data(command) == re_sub_password(command, 1)

\* format_entry_for_display: the parts of the line it returns,
\* "[index] timestamp - type" and the masked command; the timestamp is the
\* reading of the clock the entry holds
format_entry_for_display(entry, index) ==
    [index |-> index, timestamp |-> entry.created_at, qr_type |-> entry.type,
     masked_command |-> mask_sensitive_data(entry.command)]

----------------------------------------------------------------------------
(* The state before anything has run *)

NoCall == [fn |-> "none", args |-> <<>>, done |-> TRUE, ret |-> <<>>]

InitCli ==
    /\ pc = "idle" /\ inv = [cmd |-> "none"] /\ vals = [cmd |-> "none"]
    /\ log = <<>> /\ files = {}
    /\ exitCode = -1 /\ stderr = <<>> /\ uncaught = FALSE

NoHistRet == [op |-> "none", prev |-> "none", before |-> 0, arg |-> <<>>, ret |-> <<>>,
              raised |-> FALSE, kind |-> "none"]

InitHist ==
    /\ hfile = [kind |-> "missing", entries |-> <<>>]
    /\ hret = NoHistRet
    /\ added = 0 /\ now = 0 /\ written = <<>>

Init == call = NoCall /\ InitCli /\ InitHist

----------------------------------------------------------------------------
(* Calls of the WiFi validators and of the WiFi formatter *)

MaxStrLen == 2
MaxEscLen == 3

WifiChars == {"a", BS, ";", ",", "\"", ":"}
FieldChars == {"a", BS, ";"}
PwChars == {"a", BS, ":"}

SecurityInputs ==
    { WPA, WPA2, WPA3, WEP, NOPASS, NONE, OPEN,
      <<"w","p","a">>, <<"W","p","a","2">>, <<"w","p","a","3">>, <<"w","e","p">>,
      <<"n","o","p","a","s","s">>, <<"N","o","P","a","s","s">>,
      <<"n","o","n","e">>, <<"o","p","e","n">>, <<"O","p","e","n">>,
      <<>>, <<"W","P","A","4">>, <<"w","p","a"," ">>, <<"W","P">>,
      <<"N","O">>, <<"o","f","f">> }

SsidInputs ==
    StringsUpTo(FieldChars, MaxStrLen)
        \cup {Rep("a", n) : n \in (SsidMax - 1)..(SsidMax + 1)}
        \cup {Rep(";", SsidMax), Rep(";", SsidMax + 1)}

PasswordInputs == StringsUpTo(PwChars, MaxStrLen)

OptPasswordInputs == {None} \cup {Some(p) : p \in {<<>>, <<"a">>, <<";", "a">>}}

\* a call that has not returned yet
Pending(fn, args) == [fn |-> fn, args |-> args, done |-> FALSE, ret |-> <<>>]
Return(c, ret) == [c EXCEPT !.done = TRUE, !.ret = ret]
Returned(fn) == call.fn = fn /\ call.done

WifiCalls ==
    {Pending("validate_wifi_security", [security |-> s]) : s \in SecurityInputs}
    \cup {Pending("validate_wifi", [ssid |-> ssid, password |-> password, security |-> s]) :
            ssid \in SsidInputs, password \in OptPasswordInputs, s \in SecurityInputs}
    \cup {Pending("escape", [s |-> s]) : s \in StringsUpTo(WifiChars, MaxEscLen)}
    \cup {Pending("format_wifi",
                  [ssid |-> ssid, password |-> password, security |-> s, hidden |-> hidden]) :
            ssid \in SsidInputs, password \in PasswordInputs,
            s \in valid_types, hidden \in BOOLEAN}

InitWifi == call \in WifiCalls /\ InitCli /\ InitHist

ValidateWifiSecurityCall ==
    /\ call.fn = "validate_wifi_security" /\ ~call.done
    /\ call' = Return(call, validate_wifi_security(call.args.security))
    /\ UNCHANGED <<cliVars, histVars>>

ValidateWifiCall ==
    /\ call.fn = "validate_wifi" /\ ~call.done
    /\ call' = Return(call, validate_wifi(call.args.ssid, call.args.password,
                                          call.args.security))
    /\ UNCHANGED <<cliVars, histVars>>

EscapeCall ==
    /\ call.fn = "escape" /\ ~call.done
    /\ call' = Return(call, escape(call.args.s))
    /\ UNCHANGED <<cliVars, histVars>>

FormatWifiCall ==
    /\ call.fn = "format_wifi" /\ ~call.done
    /\ call' = Return(call, format_wifi(call.args.ssid, call.args.password,
                                        call.args.security, call.args.hidden))
    /\ UNCHANGED <<cliVars, histVars>>

NextWifi ==
    \/ ValidateWifiSecurityCall
    \/ ValidateWifiCall
    \/ EscapeCall
    \/ FormatWifiCall

SpecWifi == InitWifi /\ [][NextWifi]_vars

----------------------------------------------------------------------------
(* What a scanner reads back from a WIFI: payload *)

Special == {BS, ";", ",", "\"", ":"}

\* one pass over s: a special character gets one backslash, others are copied
RECURSIVE EscapeRef(_)
EscapeRef(s) ==
    IF s = <<>> THEN <<>>
    ELSE (IF Head(s) \in Special THEN <<BS, Head(s)>> ELSE <<Head(s)>>)
         \o EscapeRef(Tail(s))

\* drop each escaping backslash and keep the character after it
RECURSIVE Unescape(_)
Unescape(s) ==
    IF s = <<>> THEN <<>>
    ELSE IF Head(s) = BS /\ Len(s) >= 2
         THEN <<s[2]>> \o Unescape(Slice(s, 3, Len(s)))
         ELSE <<Head(s)>> \o Unescape(Tail(s))

\* the fields of s, split at each ';' that no backslash escapes
RECURSIVE SplitFields(_, _, _)
SplitFields(s, i, cur) ==
    IF i > Len(s) THEN <<cur>>
    ELSE IF s[i] = BS /\ i < Len(s)
         THEN SplitFields(s, i + 2, cur \o <<s[i], s[i + 1]>>)
    ELSE IF s[i] = ";"
         THEN <<cur>> \o SplitFields(s, i + 1, <<>>)
    ELSE SplitFields(s, i + 1, Append(cur, s[i]))

\* raw equals lit up to the case of its letters
CIEq(raw, lit) ==
    /\ Len(raw) = Len(lit)
    /\ \A i \in 1..Len(lit) : raw[i] \in {lit[i], LowerChar(lit[i])}

----------------------------------------------------------------------------
(* Claims about the WiFi validators and the WiFi formatter *)

ValidSsid(ssid) == ssid # <<>> /\ Len(ssid) <= SsidMax

\* the security type a raw value stands for, or <<>> when it stands for none
NormalizedSecurity(raw) ==
    IF \E t \in {NONE, OPEN, NOPASS} : CIEq(raw, t) THEN NOPASS
    ELSE IF \E t \in {WPA, WPA2, WPA3, WEP} : CIEq(raw, t)
         THEN CHOOSE t \in {WPA, WPA2, WPA3, WEP} : CIEq(raw, t)
    ELSE <<>>

\* C3: validate_wifi with a valid ssid and a security that normalizes to sec:
\* when sec is not NOPASS and the password is None or empty, it raises a
\* ValidationError that names sec; when sec is NOPASS it returns the empty
\* password whatever password was passed; otherwise it returns the password
\* as passed.
C3_ValidateWifiPassword ==
    (Returned("validate_wifi") /\ ValidSsid(call.args.ssid)
        /\ NormalizedSecurity(call.args.security) # <<>>) =>
    LET sec == NormalizedSecurity(call.args.security)
        password == call.args.password
        missing == ~password.some \/ password.v = <<>>
    IN  /\ (sec # NOPASS /\ missing) =>
              (~call.ret.ok /\ call.ret.kind = "password_required" /\ call.ret.detail = sec)
        /\ (sec = NOPASS) => (call.ret.ok /\ call.ret.value.password = <<>>)
        /\ (sec # NOPASS /\ ~missing) =>
              (call.ret.ok /\ call.ret.value.password = password.v)

\* an open network given under an alias and with a password: the password is dropped
C3_Witness ==
    /\ Returned("validate_wifi")
    /\ call.args.security = <<"o","p","e","n">>
    /\ call.args.password = Some(<<";", "a">>)
    /\ call.ret.ok /\ call.ret.value.password = <<>>
    /\ call.ret.value.security = NOPASS

\* C4: for an ssid of at most 32 characters, format_wifi returns a string that
\* starts with WIFI:T:<security>;S:<escaped ssid>; and ends with ;; and whose
\* fields are, in this order, T, S, then P:<escaped password> exactly when the
\* security is not NOPASS and the password is non-empty, then H:true exactly
\* when hidden is set.
C4_FormatWifiPattern ==
    (Returned("format_wifi") /\ Len(call.args.ssid) <= SsidMax) =>
    LET a == call.args
        out == call.ret
        T == <<"T", ":">> \o a.security
        S == <<"S", ":">> \o EscapeRef(a.ssid)
        P == IF a.security # NOPASS /\ a.password # <<>>
             THEN << <<"P", ":">> \o EscapeRef(a.password) >> ELSE <<>>
        H == IF a.hidden THEN << <<"H", ":", "t", "r", "u", "e">> >> ELSE <<>>
    IN  /\ StartsWith(out, <<"W", "I", "F", "I", ":">> \o T \o <<";">> \o S \o <<";">>)
        /\ EndsWith(out, <<";", ";">>)
        /\ SplitFields(out, 6, <<>>) = <<T, S>> \o P \o H \o << <<>>, <<>> >>

\* a hidden WPA network whose ssid and password both need escaping
C4_Witness ==
    /\ Returned("format_wifi")
    /\ call.args.ssid = <<";", BS>> /\ call.args.password = <<":", BS>>
    /\ call.args.security = WPA2 /\ call.args.hidden
    /\ Len(SplitFields(call.ret, 6, <<>>)) = 6

\* C5: escape puts exactly one backslash before each backslash, semicolon,
\* comma, double quote and colon and copies every other character in place,
\* so removing the added backslashes gives the input back.
C5_EscapeRoundTrip ==
    Returned("escape") =>
        /\ call.ret = EscapeRef(call.args.s)
        /\ Unescape(call.ret) = call.args.s

\* an input that already holds a backslash before a special character
C5_Witness ==
    /\ Returned("escape")
    /\ call.args.s = <<BS, ";", "a">>
    /\ call.ret = <<BS, BS, BS, ";", "a">>

\* C7: validate_wifi_security ignores case: NONE, OPEN and NOPASS give NOPASS,
\* WPA, WPA2, WPA3 and WEP give themselves in upper case, every other input
\* raises a ValidationError; a returned value is one of the five types.
C7_SecurityNormalized ==
    Returned("validate_wifi_security") =>
    LET raw == call.args.security
    IN  /\ NormalizedSecurity(raw) # <<>> =>
              (call.ret.ok /\ call.ret.value = NormalizedSecurity(raw))
        /\ NormalizedSecurity(raw) = <<>> =>
              (~call.ret.ok /\ call.ret.kind = "bad_security")
        /\ call.ret.ok => call.ret.value \in valid_types

\* a mixed-case alias
C7_Witness ==
    /\ Returned("validate_wifi_security")
    /\ call.args.security = <<"O","p","e","n">>
    /\ call.ret = Ok(NOPASS)

----------------------------------------------------------------------------
(* Calls of validate_phone *)

MaxDigits == 17

DigitAt(i) == <<"5", "1", "2", "3", "4", "0", "6", "7", "8", "9">>[(i % 10) + 1]
DigitString(n) == [i \in 1..n |-> DigitAt(i)]

\* n digits with sep put in after the first k of them
Grouped(n, k, sep) == Slice(DigitString(n), 1, k) \o sep \o Slice(DigitString(n), k + 1, n)

PhonePrefixes ==
    {<<>>, <<"+">>, <<"(">>, <<" ", "+">>, <<"+", "+">>, <<"a">>, <<"+", " ">>, <<"U+0663">>}
PhoneSeparators == {<<>>, <<"-">>, <<" ">>, <<".">>, <<")">>, <<"(", ")">>, <<"\t">>,
                    <<"\n">>, <<"a">>, <<"+">>, <<"/">>}

PhoneInputs ==
    {pre \o Grouped(n, k, sep) :
        pre \in PhonePrefixes, n \in 0..MaxDigits, k \in {0, 3}, sep \in PhoneSeparators}
    \cup {pre \o DigitString(n) \o sep :
        pre \in PhonePrefixes, n \in 0..MaxDigits, sep \in PhoneSeparators}
    \cup { <<"(","5","5","5",")"," ","1","2","3","-","4","5","6","7">>, <<"a","b","c">> }

InitPhone ==
    /\ call \in {Pending("validate_phone", [phone |-> p]) : p \in PhoneInputs}
    /\ InitCli /\ InitHist

ValidatePhoneCall ==
    /\ call.fn = "validate_phone" /\ ~call.done
    /\ call' = Return(call, validate_phone(call.args.phone))
    /\ UNCHANGED <<cliVars, histVars>>

NextPhone == ValidatePhoneCall

SpecPhone == InitPhone /\ [][NextPhone]_vars

\* C6: validate_phone raises a ValidationError for the empty string; otherwise
\* it removes whitespace, hyphens, dots and parentheses and returns what is
\* left exactly when that is an optional '+' followed by 7 to 15 digits and
\* nothing else; in every other case it raises a ValidationError.
C6_ValidatePhone ==
    Returned("validate_phone") =>
    LET raw == call.args.phone
        kept(c) == c \notin Whitespace \cup {"-", ".", "(", ")"}
        stripped == SelectSeq(raw, kept)
        digits == IF stripped # <<>> /\ stripped[1] = "+" THEN Tail(stripped) ELSE stripped
        wellFormed == /\ Len(digits) >= PhoneMinDigits /\ Len(digits) <= PhoneMaxDigits
                      /\ \A i \in 1..Len(digits) : digits[i] \in Digits
    IN  /\ raw = <<>> => ~call.ret.ok
        /\ call.ret.ok <=> (raw # <<>> /\ wellFormed)
        /\ call.ret.ok => call.ret.value = stripped

\* the formatted number of the documentation
C6_Witness ==
    /\ Returned("validate_phone")
    /\ call.args.phone = <<"(","5","5","5",")"," ","1","2","3","-","4","5","6","7">>
    /\ call.ret = Ok(<<"5","5","5","1","2","3","4","5","6","7">>)

----------------------------------------------------------------------------
(* Calls of validate_vcard, and of format_vcard on what it returned *)

NameInputs ==
    { None, Some(<<>>), Some(<<" ">>), Some(<<" ", "\t">>), Some(<<"a">>),
      Some(<<"a", " ", "b">>), Some(<<" ", "a", " ", " ", "b", " ", "c", " ">>) }

OptPhoneInputs ==
    { None, Some(<<>>), Some(DigitString(PhoneMinDigits)),
      Some(<<"+">> \o Grouped(PhoneMaxDigits, 3, <<"-">>)), Some(<<"a", "b", "c">>) }

OptEmailInputs ==
    { None, Some(<<"a", "@", "b", ".", "c", "o">>), Some(<<"a", "b", ".", "c", "o">>) }

OptUrlInputs ==
    { None, Some(<<"b", ".", "c", "o">>), Some(HTTP \o <<"b", ".", "c", "o">>),
      Some(<<"b", " ", "c">>) }

OptOrgInputs == { None, Some(<<" ", "o", " ">>), Some(<<" ">>) }
OptTitleInputs == { None, Some(<<"t">>) }

InitVcard ==
    /\ call \in {Pending("validate_vcard",
                         [name |-> n, phone |-> p, email |-> e,
                          organization |-> o, title |-> t, url |-> u]) :
                    n \in NameInputs, p \in OptPhoneInputs, e \in OptEmailInputs,
                    o \in OptOrgInputs, t \in OptTitleInputs, u \in OptUrlInputs}
    /\ InitCli /\ InitHist

ValidateVcardCall ==
    /\ call.fn = "validate_vcard" /\ ~call.done
    /\ LET a == call.args
       IN  call' = Return(call, validate_vcard(a.name, a.phone, a.email,
                                               a.organization, a.title, a.url))
    /\ UNCHANGED <<cliVars, histVars>>

\* formatters.format_vcard(**vcard_data), as the vcard command calls it
FormatVcardCall ==
    /\ call.fn = "validate_vcard" /\ call.done /\ call.ret.ok
    /\ LET d == call.ret.value
       IN  call' = [fn |-> "format_vcard", args |-> d, done |-> TRUE,
                    ret |-> format_vcard(d.name, d.phone, d.email,
                                         d.organization, d.title, d.url)]
    /\ UNCHANGED <<cliVars, histVars>>

NextVcard ==
    \/ ValidateVcardCall
    \/ FormatVcardCall

SpecVcard == InitVcard /\ [][NextVcard]_vars

\* C8: the contact name is a required non-empty string: validate_vcard raises
\* a ValidationError when the name is missing or empty, the name it returns
\* is never empty, and so format_vcard never gets an empty name for its N:
\* and FN: lines.
C8_VcardNameNonEmpty ==
    /\ Returned("validate_vcard") =>
          /\ (~call.args.name.some \/ call.args.name.v = <<>>) => ~call.ret.ok
          /\ call.ret.ok => call.ret.value.name # <<>>
    /\ Returned("format_vcard") =>
          /\ call.args.name # <<>>
          /\ call.ret[4] # <<"F", "N", ":">>

----------------------------------------------------------------------------
(* Calls of validate_output_path, and of generate_qr on the path it returned *)

StemInputs == { <<"a">>, <<"a", ".", "b">>, <<>>, <<"a", ".", "p", "n", "g">>, <<".", "a">> }

ExtInputs ==
    { <<>>, <<".">>, <<".", "p", "n", "g">>, <<".", "P", "N", "G">>, <<".", "P", "n", "g">>,
      <<".", "s", "v", "g">>, <<".", "S", "V", "G">>, <<".", "t", "x", "t">>,
      <<".", "p", "n", "g", ".">>, <<".", "j", "p", "g">> }

OutputInputs ==
    {[dir |-> d, name |-> st \o ext] :
        d \in {"out", "readonly", "nowhere"}, st \in StemInputs, ext \in ExtInputs}

OverrideInputs == {None, Some(PNG), Some(SVG)}

InitPath ==
    /\ call \in {Pending("validate_output_path", [output |-> o, format_override |-> f]) :
                    o \in OutputInputs, f \in OverrideInputs}
    /\ InitCli /\ InitHist

ValidateOutputPathCall ==
    /\ call.fn = "validate_output_path" /\ ~call.done
    /\ call' = Return(call, validate_output_path(call.args.output))
    /\ UNCHANGED <<cliVars, histVars>>

\* generate_qr on the validated path: it saves the image and returns the path
GenerateQrCall ==
    /\ call.fn = "validate_output_path" /\ call.done /\ call.ret.ok
    /\ LET r == generate_qr(call.ret.value, call.args.format_override)
       IN  /\ call' = [fn |-> "generate_qr",
                       args |-> [output_path |-> call.ret.value,
                                 format_override |-> call.args.format_override],
                       done |-> TRUE, ret |-> r]
           /\ files' = files \cup {r.path}
    /\ UNCHANGED <<pc, inv, vals, log, exitCode, stderr, uncaught, histVars>>

NextPath ==
    \/ ValidateOutputPathCall
    \/ GenerateQrCall

SpecPath == InitPath /\ [][NextPath]_vars

\* the format the caller asked for: the override, else the path's extension
ResolvedFormat(path, override) ==
    IF override.some THEN override.v
    ELSE IF lower(suffix(path.name)) = <<".", "s", "v", "g">> THEN SVG ELSE PNG

\* the name without its last extension
Stem(name) == Slice(name, 1, rfind_dot(name) - 1)

\* C9 as claimed: the resolved format is the override, else the extension, and
\* the saved and returned path is the given path with its extension replaced
\* by exactly '.png' or '.svg', the extension of the resolved format.
C9_ExtensionExact ==
    Returned("generate_qr") =>
    LET fmt == ResolvedFormat(call.args.output_path, call.args.format_override)
    IN  /\ call.ret.format = fmt
        /\ call.ret.path.dir = call.args.output_path.dir
        /\ call.ret.path.name = Stem(call.args.output_path.name) \o <<".">> \o fmt
        /\ files = {call.ret.path}

\* C9 as amended: the saved and returned path has the extension of the
\* resolved format up to letter case: an extension that already is that of the
\* format up to case is kept as written, any other is replaced by '.png' or
\* '.svg'; the rest of the path is unchanged.
C9_ExtensionMatchesFormat ==
    Returned("generate_qr") =>
    LET given == call.args.output_path
        fmt == ResolvedFormat(given, call.args.format_override)
    IN  /\ call.ret.format = fmt
        /\ lower(suffix(call.ret.path.name)) = <<".">> \o fmt
        /\ call.ret.path.dir = given.dir
        /\ Stem(call.ret.path.name) = Stem(given.name)
        /\ IF lower(suffix(given.name)) = <<".">> \o fmt
           THEN call.ret.path = given
           ELSE suffix(call.ret.path.name) = <<".">> \o fmt
        /\ files = {call.ret.path}

\* a .png path saved as SVG: the extension is replaced, the inner dot stays
C9_Witness ==
    /\ Returned("generate_qr")
    /\ call.args.output_path = [dir |-> "out", name |-> <<"a", ".", "b", ".", "p", "n", "g">>]
    /\ call.args.format_override = Some(SVG)
    /\ call.ret.path.name = <<"a", ".", "b", ".", "s", "v", "g">>

----------------------------------------------------------------------------
(* The history operations, called one after the other on the history file *)

MaxEntries == 3
MaxClock == 2

IdInputs == {<<"1", "f">>, <<"2", "e">>}

\* the clock moves on by at most one unit between two readings of it
Ticks == {t \in {now, now + 1} : t <= MaxClock}

\* what a url command and a wifi command record
EntryInputs ==
    { [type |-> "url",
       command |-> <<"q","r"," ","u","r","l"," ","\"","b",".","c","o","\"",
                     " ","-","-","o","u","t","p","u","t"," ","a",".","p","n","g">>,
       output_path |-> <<"/","o","u","t","/","a",".","p","n","g">>,
       data |-> [url |-> HTTPS \o <<"b", ".", "c", "o">>]],
      [type |-> "wifi",
       command |-> <<"q","r"," ","w","i","f","i"," ","-","-","s","s","i","d"," ","a",
                     " ","-","-","p","a","s","s","w","o","r","d"," ","p","w",
                     " ","-","-","o","u","t","p","u","t"," ","a",".","s","v","g">>,
       output_path |-> <<"/","o","u","t","/","a",".","s","v","g">>,
       data |-> [ssid |-> <<"a">>, security |-> WPA, hidden |-> FALSE]] }

\* an entry's input with the id uuid4 draws for it; two entries may share an id
AddInputs ==
    LET url == CHOOSE e \in EntryInputs : e.type = "url"
        wifi == CHOOSE e \in EntryInputs : e.type = "wifi"
    IN  { <<url, <<"1", "f">> >>, <<wifi, <<"2", "e">> >>, <<wifi, <<"1", "f">> >> }

\* no limit, a negative limit, 0, 1 and the largest number of entries stored
LimitInputs == {NoLimit} \cup {[some |-> TRUE, v |-> n] : n \in {-1, 0, 1, MaxEntries}}

\* r is what the operation returned: [raised, ret]; kind is the file it found
HistRet(op, arg, r) ==
    [op |-> op, prev |-> hret.op, before |-> added, arg |-> arg, ret |-> r.ret,
     raised |-> r.raised, kind |-> hfile.kind]

AddEntry ==
    /\ Len(hfile.entries) < MaxEntries
    /\ \E a \in AddInputs, t \in Ticks :
          LET e == a[1]
              r == add_entry(hfile, a[2], t, e.type, e.command, e.output_path, e.data)
          IN  /\ hfile' = r.file
              /\ hret' = HistRet("add_entry", e.type, r)
              /\ now' = t
              /\ added' = IF r.raised THEN added ELSE added + 1
              /\ written' = IF r.raised THEN written
                             ELSE Append(written, [id |-> a[2], type |-> e.type, command |-> e.command,
                                                   output_path |-> e.output_path, data |-> e.data,
                                                   created_at |-> t])
    /\ UNCHANGED <<call, cliVars>>

GetEntries ==
    /\ \E limit \in LimitInputs :
          LET r == get_entries(hfile, limit)
          IN  hret' = HistRet("get_entries", limit, r)
    /\ UNCHANGED <<call, cliVars, hfile, added, now, written>>

GetEntry ==
    /\ \E id \in IdInputs :
          LET r == get_entry(hfile, id)
          IN  hret' = HistRet("get_entry", id, r)
    /\ UNCHANGED <<call, cliVars, hfile, added, now, written>>

ClearHistory ==
    /\ LET r == clear_history(hfile)
       IN  /\ hfile' = r.file
           /\ hret' = HistRet("clear_history", <<>>, r)
           /\ added' = IF r.raised THEN added ELSE 0
           /\ written' = IF r.raised THEN written ELSE <<>>
    /\ UNCHANGED <<call, cliVars, now>>

\* history_cmd: the lines of the listing, format_entry_for_display(entry, i)
\* for the entries of get_entries() with i counting from 1
FormatEntryForDisplay ==
    /\ LET r == get_entries(hfile, NoLimit)
       IN  /\ ~r.raised
           /\ r.ret # <<>>
           /\ hret' = HistRet("format_entry_for_display", NoLimit,
                              [raised |-> FALSE,
                               ret |-> [i \in 1..Len(r.ret) |-> format_entry_for_display(r.ret[i], i)]])
    /\ UNCHANGED <<call, cliVars, hfile, added, now, written>>

NextHist ==
    \/ AddEntry
    \/ GetEntries
    \/ GetEntry
    \/ FormatEntryForDisplay
    \/ ClearHistory

SpecHist == Init /\ [][NextHist]_vars

\* C10: from an empty history, clear_history after N calls of add_entry
\* returns N and leaves nothing for get_entries to return; clear_history
\* called again directly afterwards returns 0.
C10_ClearReturnsCount ==
    /\ hret.op = "clear_history" => (hret.ret = hret.before /\ hfile.entries = <<>>)
    /\ (hret.op = "get_entries" /\ hret.prev = "clear_history") => hret.ret = <<>>
    /\ (hret.op = "clear_history" /\ hret.prev = "clear_history") => hret.ret = 0

\* three entries were added, and the clear that followed returned 3
C10_Witness ==
    /\ hret.op = "clear_history" /\ hret.prev = "add_entry"
    /\ hret.before = MaxEntries /\ hret.ret = MaxEntries
    /\ hfile = [kind |-> "object", entries |-> <<>>]

\* C11: the stored history is append-only: after any sequence of add_entry,
\* get_entries, get_entry, format_entry_for_display and clear_history the
\* file holds exactly the entries added since the last clear, in the order
\* they were added and with the field values they were written with;
\* add_entry adds exactly one entry, and a read changes nothing in the file.
C11_AppendOnly ==
    /\ hfile.entries = written
    /\ Len(hfile.entries) = added
    /\ hret.op = "add_entry" => Len(hfile.entries) = hret.before + 1

\* three entries were added, the newest first in time's order, and a listing
\* that returned them in another order left the file as it was written
C11_Witness ==
    /\ hret.op = "get_entries" /\ hret.arg = NoLimit
    /\ Len(written) = MaxEntries
    /\ written[1].created_at < written[MaxEntries].created_at
    /\ hret.ret # hfile.entries
    /\ hfile.entries = written

\* the number of positions of s that hold x
Count(s, x) == Cardinality({i \in 1..Len(s) : s[i] = x})

\* C12: get_entries() called without a limit returns every stored entry
\* exactly once, ordered by created_at descending: of two consecutive
\* returned entries the first has a created_at not below the second's.
C12_GetEntriesSorted ==
    (hret.op = "get_entries" /\ hret.arg = NoLimit) =>
        /\ Len(hret.ret) = Len(hfile.entries)
        /\ \A i \in 1..Len(hfile.entries) :
              Count(hret.ret, hfile.entries[i]) = Count(hfile.entries, hfile.entries[i])
        /\ \A i \in 1..(Len(hret.ret) - 1) :
              hret.ret[i].created_at >= hret.ret[i + 1].created_at

\* entries stored oldest first at three different times come back newest first
C12_Witness ==
    /\ hret.op = "get_entries" /\ hret.arg = NoLimit
    /\ Len(hfile.entries) = 3
    /\ hfile.entries[1].created_at < hfile.entries[2].created_at
    /\ hfile.entries[2].created_at < hfile.entries[3].created_at
    /\ hret.ret = <<hfile.entries[3], hfile.entries[2], hfile.entries[1]>>

\* C17: get_entries(limit) bounds the result: for every integer limit >= 0
\* and a history of n stored entries it returns exactly min(limit, n)
\* entries, and they are the most recent ones.
C17_LimitReturnsMostRecent ==
    (hret.op = "get_entries" /\ hret.arg.some /\ hret.arg.v >= 0) =>
        LET n == Len(hfile.entries)
            k == IF hret.arg.v < n THEN hret.arg.v ELSE n
        IN  /\ Len(hret.ret) = k
            /\ hret.ret = Slice(sort_desc(hfile.entries), 1, k)

----------------------------------------------------------------------------
(* The history operations on a history file found in any condition *)

\* the files _load_history may find: none, one of each malformed kind, an
\* empty history and a history of one entry
HistoryFiles ==
    {[kind |-> k, entries |-> <<>>] :
        k \in {"missing", "bad_json", "no_entries", "not_object", "entries_other", "object"}}
    \cup {save_history(<<[id |-> a[2], type |-> a[1].type, command |-> a[1].command,
                          output_path |-> a[1].output_path, data |-> a[1].data,
                          created_at |-> 0]>>) : a \in AddInputs}

InitLoad ==
    /\ call = NoCall /\ InitCli
    /\ hfile \in HistoryFiles
    /\ hret = NoHistRet
    /\ added = Len(hfile.entries) /\ now = 0 /\ written = hfile.entries

SpecLoad == InitLoad /\ [][NextHist]_vars

\* C14: the history file is read permissively: when it is missing or
\* malformed in any way (not valid JSON, or valid JSON that is not an object
\* holding a list under "entries"), add_entry, get_entries, get_entry and
\* clear_history treat the history as empty and complete without raising.
C14_ReadPermissive ==
    /\ ~hret.raised
    /\ (hret.op # "none" /\ hret.kind # "object") =>
          /\ hret.op = "add_entry" => Len(hfile.entries) = 1
          /\ hret.op = "get_entries" => hret.ret = <<>>
          /\ hret.op = "get_entry" => hret.ret = <<>>
          /\ hret.op = "clear_history" => (hret.ret = 0 /\ hfile.entries = <<>>)

----------------------------------------------------------------------------
(* A wifi command recorded by _build_command, then shown by the listing *)

MaxPwLen == 3

MaskPwChars == {"p", " ", "'"}

\* qr wifi --ssid a --password <pw> --security WPA [--hidden] --output /out/a.png
MaskInvocations ==
    {[cmd |-> "wifi",
      p |-> [ssid |-> <<"a">>, password |-> pw, security |-> WPA, hidden |-> h],
      output |-> [dir |-> "out", name |-> <<"a", ".", "p", "n", "g">>],
      format_override |-> None] :
        pw \in StringsUpTo(MaskPwChars, MaxPwLen), h \in BOOLEAN}

InitMask ==
    /\ call \in {Pending("build_command", [i |-> i]) : i \in MaskInvocations}
    /\ InitCli /\ InitHist

BuildCommandCall ==
    /\ call.fn = "build_command" /\ ~call.done
    /\ call' = Return(call, build_command(call.args.i))
    /\ UNCHANGED <<cliVars, histVars>>

\* the entry add_entry makes of the recorded command, handed to
\* format_entry_for_display as the first line of the listing
FormatEntryForDisplayCall ==
    /\ Returned("build_command")
    /\ LET i == call.args.i
           entry == [id |-> <<"1", "f">>, type |-> i.cmd, command |-> call.ret,
                     output_path |-> path_str(i.output),
                     data |-> [ssid |-> i.p.ssid, security |-> i.p.security, hidden |-> i.p.hidden],
                     created_at |-> now]
       IN  call' = [fn |-> "format_entry_for_display",
                    args |-> [i |-> i, entry |-> entry, index |-> 1],
                    done |-> TRUE,
                    ret |-> format_entry_for_display(entry, 1)]
    /\ UNCHANGED <<cliVars, histVars>>

NextMask ==
    \/ BuildCommandCall
    \/ FormatEntryForDisplayCall

SpecMask == InitMask /\ [][NextMask]_vars

\* the recorded command with the password's value replaced by the mask
Redacted(i) ==
    LET shown == Option(PasswordFlag, Some(i.p.password))
        masked == IF \E k \in 1..Len(i.p.password) : i.p.password[k] = " "
                  THEN PasswordFlag \o <<" ", "\"">> \o Mask \o <<"\"">>
                  ELSE PasswordFlag \o <<" ">> \o Mask
        command == build_command(i)
        k == CHOOSE k \in 1..Len(command) :
                /\ Slice(command, k, k + Len(PasswordFlag) - 1) = PasswordFlag
                /\ \A j \in 1..(k - 1) : Slice(command, j, j + Len(PasswordFlag) - 1) # PasswordFlag
    IN  IF shown = <<>> THEN command
        ELSE Slice(command, 1, k - 1) \o masked
             \o Slice(command, k + Len(shown[1]), Len(command))

\* C13: format_entry_for_display redacts the password of a recorded command:
\* where the command holds --password followed by a value, written by
\* _build_command and quoted when the value holds a space, the displayed
\* line shows the whole value replaced by ****, and the entry is not altered.
C13_PasswordRedacted ==
    Returned("format_entry_for_display") =>
        /\ call.ret.masked_command = Redacted(call.args.i)
        /\ call.args.entry.command = build_command(call.args.i)

----------------------------------------------------------------------------
(* The email command's calls of validate_email and of format_email *)

MaxLocalLen == 2

LocalChars == {"a", "?", "&"}

\* local@b.co for every local part, and an address without "@"
AddressInputs ==
    {local \o <<"@", "b", ".", "c", "o">> : local \in StringsUpTo(LocalChars, MaxLocalLen)}
    \cup {<<"a", "b", ".", "c", "o">>}

SubjectInputs == {None, Some(<<"H", "i", " ", "t", "h", "e", "r", "e">>), Some(<<"a", "&", "b">>)}
BodyInputs == {None, Some(<<"x", "=", "y", "?">>)}
CcInputs == {None, Some(<<"c", "@", "d", ".", "c", "o">>)}
BccInputs == {None, Some(<<"e", "@", "f", ".", "c", "o">>)}

InitEmail ==
    /\ call \in {Pending("validate_email",
                          [address |-> a, subject |-> s, body |-> b, cc |-> c, bcc |-> d]) :
                     a \in AddressInputs, s \in SubjectInputs, b \in BodyInputs,
                     c \in CcInputs, d \in BccInputs}
    /\ InitCli /\ InitHist

ValidateEmailCall ==
    /\ call.fn = "validate_email" /\ ~call.done
    /\ call' = Return(call, validate_email(call.args.address))
    /\ UNCHANGED <<cliVars, histVars>>

\* the command hands the address validate_email returned to format_email
FormatEmailCall ==
    /\ Returned("validate_email") /\ call.ret.ok
    /\ LET a == call.args
       IN  call' = [fn |-> "format_email",
                    args |-> [a EXCEPT !.address = call.ret.value],
                    done |-> TRUE,
                    ret |-> format_email(call.ret.value, a.subject, a.body, a.cc, a.bcc)]
    /\ UNCHANGED <<cliVars, histVars>>

NextEmail ==
    \/ ValidateEmailCall
    \/ FormatEmailCall

SpecEmail == InitEmail /\ [][NextEmail]_vars

\* the pieces of s between the occurrences of the character c
RECURSIVE SplitAt(_, _)
SplitAt(s, c) ==
    LET hits == {i \in 1..Len(s) : s[i] = c}
        i == CHOOSE i \in hits : \A j \in hits : i <= j
    IN  IF hits = {} THEN <<s>>
        ELSE <<Slice(s, 1, i - 1)>> \o SplitAt(Slice(s, i + 1, Len(s)), c)

\* s cut at the first occurrence of c: <<before, after>>, or <<s>> without one
CutAt(s, c) ==
    LET hits == {i \in 1..Len(s) : s[i] = c}
        i == CHOOSE i \in hits : \A j \in hits : i <= j
    IN  IF hits = {} THEN <<s>>
        ELSE <<Slice(s, 1, i - 1), Slice(s, i + 1, Len(s))>>

Encoded == {" ", "\"", "#", "%", "&", "+", ",", "/", ":", ";", "=", "?", "@", "\\", "\n"}

\* percent-decoding
RECURSIVE Unquote(_)
Unquote(s) ==
    IF s = <<>> THEN <<>>
    ELSE IF s[1] = "%" /\ Len(s) >= 3 /\ \E c \in Encoded : PercentCode(c) = Slice(s, 1, 3)
         THEN <<CHOOSE c \in Encoded : PercentCode(c) = Slice(s, 1, 3)>> \o Unquote(Slice(s, 4, Len(s)))
         ELSE <<s[1]>> \o Unquote(Tail(s))

Mailto == <<"m", "a", "i", "l", "t", "o", ":">>

\* a mailto: URI read back: cut at the first "?", the query split at "&",
\* each parameter cut at "=", keys and values percent-decoded
ParseMailto(uri) ==
    LET rest == Slice(uri, Len(Mailto) + 1, Len(uri))
        cut == CutAt(rest, "?")
        pairs == IF Len(cut) = 1 THEN <<>> ELSE SplitAt(cut[2], "&")
    IN  [scheme |-> Slice(uri, 1, Len(Mailto)),
         address |-> cut[1],
         params |-> [k \in 1..Len(pairs) |->
                       LET kv == CutAt(pairs[k], "=")
                       IN  <<Unquote(kv[1]), IF Len(kv) = 1 THEN <<>> ELSE Unquote(kv[2])>>]]

\* the parameters of a call that are present, in the order of the keys
PresentParams(a) ==
    LET param(key, o) == IF Truthy(o) THEN << <<key, o.v>> >> ELSE <<>>
    IN  param(<<"s", "u", "b", "j", "e", "c", "t">>, a.subject) \o param(<<"b", "o", "d", "y">>, a.body)
        \o param(<<"c", "c">>, a.cc) \o param(<<"b", "c", "c">>, a.bcc)

\* C16: for every address validate_email accepts and every combination of
\* present and absent subject, body, cc and bcc, format_email returns
\* mailto:<address> when none is present and otherwise mailto:<address>?
\* followed by the percent-encoded present values in the key order subject,
\* body, cc, bcc; the result, cut at the first "?", split at "&" and "=" and
\* percent-decoded, is exactly the original address and present parameters.
C16_MailtoRoundTrip ==
    Returned("format_email") =>
        LET a == call.args
            present == PresentParams(a)
        IN  /\ call.ret = IF present = <<>> THEN Mailto \o a.address
                          ELSE Mailto \o a.address \o <<"?">> \o urlencode(present)
            /\ ParseMailto(call.ret) = [scheme |-> Mailto, address |-> a.address, params |-> present]

----------------------------------------------------------------------------
(* One generation command, from the command line to the exit of the process *)

UrlParams == {[url |-> u] : u \in {<<>>, <<"b", ".", "c", "o">>, <<"b", " ", "c">>}}

TextParams == {[text |-> t] : t \in {<<>>, <<"h", "i">>, Rep("a", TextMax), Rep("a", TextMax + 1)}}

WifiParams ==
    {[ssid |-> s, password |-> pw, security |-> sec, hidden |-> h] :
        s \in {<<>>, <<"a", ";">>}, pw \in {<<>>, <<"p", "w">>, <<"p", " ", "w">>},
        sec \in {<<"w", "p", "a">>, <<"n", "o", "p", "a", "s", "s">>, <<"f", "o", "o">>}, h \in BOOLEAN}

VcardParams ==
    {[name |-> n, phone |-> ph, email |-> e, organization |-> o, title |-> None, url |-> None] :
        n \in {<<>>, <<" ">>, <<"a", " ", "b">>},
        ph \in {None, Some(DigitString(PhoneMinDigits)), Some(<<"a", "b", "c">>)},
        e \in {None, Some(<<"a", "@", "b", ".", "c", "o">>)},
        o \in {None, Some(<<"o">>), Some(Rep("o", TextMax))}}

EmailParams ==
    {[address |-> a, subject |-> s, body |-> b, cc |-> None, bcc |-> None] :
        a \in {<<"a", "@", "b", ".", "c", "o">>, <<"a", "b", ".", "c", "o">>}, s \in {None, Some(<<"H", "i", " ", "t", "h", "e", "r", "e">>)},
        b \in {None, Some(<<"x", "&", "y">>)}}

SmsParams ==
    {[phone |-> ph, message |-> m] :
        ph \in {<<"5", "5", "5", "-", "1", "2", "3", "4", "5", "6", "7">>, <<"a", "b", "c">>}, m \in {None, Some(<<"a", "/", "b", " ", "c">>)}}

CmdOutputs ==
    {[dir |-> d, name |-> n] :
        d \in {"out", "readonly", "nowhere"}, n \in {<<"a", ".", "p", "n", "g">>, <<"a", ".", "S", "V", "G">>, <<"a", ".", "t", "x", "t">>, <<>>}}

Invocations ==
    {[cmd |-> c[1], p |-> p, output |-> o, format_override |-> f] :
        c \in { <<"url", UrlParams>>, <<"text", TextParams>>, <<"wifi", WifiParams>>,
                <<"vcard", VcardParams>>, <<"email", EmailParams>>, <<"sms", SmsParams>> },
        p \in UNION {UrlParams, TextParams, WifiParams, VcardParams, EmailParams, SmsParams},
        o \in CmdOutputs, f \in OverrideInputs}

\* the history and the files earlier commands left behind
EarlierHistories ==
    { [kind |-> "missing", entries |-> <<>>],
      save_history(<< [id |-> <<"1", "f">>, type |-> "url", command |-> <<"q", "r", " ", "u", "r", "l", " ", "\"", "b", ".", "c", "o", "\"", " ", "-", "-", "o", "u", "t", "p", "u", "t", " ", "/", "o", "u", "t", "/", "a", ".", "p", "n", "g">>,
                       output_path |-> <<"/", "o", "u", "t", "/", "a", ".", "p", "n", "g">>, data |-> [url |-> <<"h", "t", "t", "p", "s", ":", "/", "/", "b", ".", "c", "o">>],
                       created_at |-> 0] >>) }

InitCmd ==
    /\ call = NoCall
    /\ pc = "idle" /\ inv = [cmd |-> "none"] /\ vals = [cmd |-> "none"]
    /\ log = <<>> /\ exitCode = -1 /\ stderr = <<>> /\ uncaught = FALSE
    /\ hfile \in EarlierHistories
    /\ files = IF hfile.kind = "missing" THEN {} ELSE {<<"/", "o", "u", "t", "/", "a", ".", "p", "n", "g">>}
    /\ hret = NoHistRet
    /\ added = Len(hfile.entries) /\ now = 1 /\ written = hfile.entries

Logged(step, ok) == Append(log, [step |-> step, ok |-> ok])

\* click parses the command line and calls the command's function
Invoke ==
    /\ pc = "idle"
    /\ \E i \in Invocations :
          /\ i.p \in (CASE i.cmd = "url" -> UrlParams [] i.cmd = "text" -> TextParams
                        [] i.cmd = "wifi" -> WifiParams [] i.cmd = "vcard" -> VcardParams
                        [] i.cmd = "email" -> EmailParams [] i.cmd = "sms" -> SmsParams)
          /\ inv' = i
    /\ vals' = [files0 |-> files, hfile0 |-> hfile]
    /\ pc' = "validate_content"
    /\ UNCHANGED <<call, log, files, exitCode, stderr, uncaught, histVars>>

ValidateContent ==
    /\ pc = "validate_content"
    /\ LET r == validate_content(inv)
       IN  /\ vals' = [files0 |-> vals.files0, hfile0 |-> vals.hfile0, content |-> r]
           /\ log' = Logged("validate_content", r.ok)
           /\ pc' = try_step(r, "validate_output")
    /\ UNCHANGED <<call, inv, files, exitCode, stderr, uncaught, histVars>>

ValidateOutput ==
    /\ pc = "validate_output"
    /\ LET r == validate_output_path(inv.output)
       IN  /\ vals' = [files0 |-> vals.files0, hfile0 |-> vals.hfile0,
                       content |-> vals.content, output |-> r,
                       payload |-> IF HasFormatter(inv.cmd) THEN <<>> ELSE vals.content.value]
           /\ log' = Logged("validate_output", r.ok)
           /\ pc' = try_step(r, IF HasFormatter(inv.cmd) THEN "format" ELSE "encode")
    /\ UNCHANGED <<call, inv, files, exitCode, stderr, uncaught, histVars>>

Format ==
    /\ pc = "format"
    /\ vals' = [vals EXCEPT !.payload = format_payload(inv, vals.content.value)]
    /\ log' = Logged("format", TRUE)
    /\ pc' = "encode"
    /\ UNCHANGED <<call, inv, files, exitCode, stderr, uncaught, histVars>>

\* generate_qr returns the path it saved the image to
EncodeReturns ==
    /\ pc = "encode"
    /\ Len(vals.payload) <= QrByteCapacity
    /\ LET r == generate_qr(vals.output.value, inv.format_override)
       IN  /\ files' = files \cup {path_str(r.path)}
           /\ vals' = [files0 |-> vals.files0, hfile0 |-> vals.hfile0,
                       content |-> vals.content, output |-> vals.output,
                       payload |-> vals.payload, result_path |-> r.path]
    /\ log' = Logged("encode", TRUE)
    /\ pc' = "record"
    /\ UNCHANGED <<call, inv, exitCode, stderr, uncaught, histVars>>

\* generate_qr raises: the payload does not fit a QR code (qr.make), or the
\* file cannot be written (img.save), which may leave a partial file.  The
\* exception is no ValidationError: no except clause of the command takes it,
\* and the interpreter prints the traceback and exits with status 1.
EncodeRaises ==
    /\ pc = "encode"
    /\ \E partial \in BOOLEAN :
          LET r == generate_qr(vals.output.value, inv.format_override)
          IN  files' = IF partial THEN files \cup {path_str(r.path)} ELSE files
    /\ log' = Logged("encode", FALSE)
    /\ uncaught' = TRUE
    /\ stderr' = [by |-> "traceback", reason |-> "encoder"]
    /\ exitCode' = 1
    /\ pc' = "exited"
    /\ UNCHANGED <<call, inv, vals, histVars>>

\* _build_command and history.add_entry
Record ==
    /\ pc = "record"
    /\ \E id \in IdInputs :
          LET r == add_entry(hfile, id, now, inv.cmd, build_command(inv),
                             path_str(vals.result_path), entry_data(inv, vals.content.value))
          IN  IF r.raised
              THEN /\ uncaught' = TRUE /\ exitCode' = 1 /\ pc' = "exited"
                   /\ stderr' = [by |-> "traceback", reason |-> "history"]
                   /\ log' = Logged("record", FALSE)
                   /\ UNCHANGED <<hfile, hret, added, written>>
              ELSE /\ hfile' = r.file
                   /\ hret' = HistRet("add_entry", inv.cmd, r)
                   /\ added' = added + 1
                   /\ written' = Append(written, [id |-> id, type |-> inv.cmd, command |-> build_command(inv),
                                                   output_path |-> path_str(vals.result_path),
                                                   data |-> entry_data(inv, vals.content.value),
                                                   created_at |-> now])
                   /\ log' = Logged("record", TRUE)
                   /\ pc' = "report"
                   /\ UNCHANGED <<uncaught, exitCode, stderr>>
    /\ UNCHANGED <<call, inv, vals, files, now>>

\* the success message; the command returns and the process exits
Report ==
    /\ pc = "report"
    /\ exitCode' = 0
    /\ pc' = "exited"
    /\ UNCHANGED <<call, inv, vals, log, files, stderr, uncaught, histVars>>

\* _handle_error: the message on the error stream, then sys.exit(1)
HandleError ==
    /\ pc = "handle_error"
    /\ LET e == IF vals.content.ok THEN vals.output ELSE vals.content
       IN  stderr' = [by |-> "handle_error", reason |-> e.kind]
    /\ exitCode' = 1
    /\ pc' = "exited"
    /\ UNCHANGED <<call, inv, vals, log, files, uncaught, histVars>>

NextCmd ==
    \/ Invoke
    \/ ValidateContent
    \/ ValidateOutput
    \/ Format
    \/ EncodeReturns
    \/ EncodeRaises
    \/ Record
    \/ Report
    \/ HandleError

SpecCmd == InitCmd /\ [][NextCmd]_vars

Did(step) == \E i \in 1..Len(log) : log[i].step = step
DidOk(step) == \E i \in 1..Len(log) : log[i].step = step /\ log[i].ok
ValidationFailed ==
    \E i \in 1..Len(log) :
        log[i].step \in {"validate_content", "validate_output"} /\ ~log[i].ok

StepRank(step) ==
    CASE step = "validate_content" -> 1
      [] step = "validate_output" -> 2
      [] step = "format" -> 3
      [] step = "encode" -> 4
      [] step = "record" -> 5

\* C1: a generation command validates, then formats, then encodes, then
\* records, in this order.  Once a validation of the content or of the output
\* path has failed the command only reports the error: the encoder is not
\* called, no image file is written and the history is left as it was.  The
\* history gets one entry, and only after the encoder has returned the path
\* it wrote, which is the path the entry records.
C1_FailFastOrder ==
    pc # "idle" =>
    /\ \A i, j \in 1..Len(log) : i < j => StepRank(log[i].step) < StepRank(log[j].step)
    /\ ValidationFailed =>
          /\ pc \in {"handle_error", "exited"}
          /\ ~Did("format") /\ ~Did("encode") /\ ~Did("record")
          /\ files = vals.files0 /\ hfile = vals.hfile0
    /\ (pc = "encode" \/ Did("encode")) =>
          (DidOk("validate_content") /\ DidOk("validate_output")
           /\ (HasFormatter(inv.cmd) => DidOk("format")))
    /\ ~Did("encode") => files = vals.files0
    /\ DidOk("record") =>
          /\ DidOk("encode")
          /\ path_str(vals.result_path) \in files
          /\ Len(hfile.entries) = Len(load_history(vals.hfile0).entries) + 1
          /\ hfile.entries[Len(hfile.entries)].output_path = path_str(vals.result_path)
          /\ Slice(hfile.entries, 1, Len(hfile.entries) - 1) = load_history(vals.hfile0).entries
    /\ ~DidOk("record") => hfile = vals.hfile0

\* a wifi command with valid credentials and an output path in a directory
\* that does not exist: it has exited, having called neither the formatter
\* nor the encoder
C1_Witness ==
    /\ pc = "exited" /\ inv.cmd = "wifi"
    /\ log = << [step |-> "validate_content", ok |-> TRUE],
                [step |-> "validate_output", ok |-> FALSE] >>
    /\ stderr = [by |-> "handle_error", reason |-> "dir_missing"]
    /\ hfile.kind = "object" /\ Len(hfile.entries) = 1
    /\ files = {<<"/", "o", "u", "t", "/", "a", ".", "p", "n", "g">>}

\* C2: a generation command exits with 0 when it succeeded and with 1 when a
\* validation or the encoder failed, and each such failure is caught by the
\* command and reported by _handle_error on the error stream: none leaves the
\* command uncaught.
C2_FailuresHandled ==
    pc = "exited" =>
    LET failed == \E i \in 1..Len(log) :
                      log[i].step \in {"validate_content", "validate_output", "format", "encode"}
                      /\ ~log[i].ok
    IN  /\ failed => (exitCode = 1 /\ ~uncaught /\ stderr # <<>> /\ stderr.by = "handle_error")
        /\ (~failed /\ DidOk("record")) => exitCode = 0

\* C15: the payload handed to the encoder never exceeds 4000 characters,
\* for every generation command: an input whose payload would be longer is
\* rejected with a validation failure before encoding.
C15_PayloadWithinCeiling ==
    pc = "encode" => Len(vals.payload) <= TextMax

====
